---- MODULE Spec2Model ----
(***************************************************************************)
(* A model of songbird's Call handler (src/handler.rs): one voice session, *)
(* its join attempt, the flume channels that carry an attempt's outcome to *)
(* the future handed back by join / join_gateway, and the gateway messages *)
(* the session emits.                                                      *)
(***************************************************************************)
EXTENDS Integers, Sequences, FiniteSets, TLC

\* Number of flume channels (join / join_gateway calls) of one behaviour.
MaxJoins == 2

\* ------------------------------------------------------------------ inputs

\* Identity of the session (Call::new_raw stores both, never changes them).
GuildIdOf == "guild-1"
UserIdOf == "user-1"

ChannelIds == {41, 42}
ServerFrags == {[endpoint |-> "host:1234", token |-> "tok"],
                [endpoint |-> "host:5678", token |-> "tok2"]}
SessionIds == {"sess-1", "sess-2"}

ChanIx == 1..MaxJoins

\* Number of driver tasks that take a token in one behaviour.
MaxTasks == 3

Tasks == 1..MaxTasks

\* The seven task categories of driver/stats.rs, one static counter each.
Categories == {"CORE", "EVENT", "DISPOSAL", "MIXER", "UDP_RX", "UDP_TX", "WS"}

\* Width of an AtomicU64, kept as 16-bit words.
U64Bits == 64
WordBits == 16
Words == U64Bits \div WordBits
WordMax == 2^WordBits - 1

\* ------------------------------------------------------------------- state

VARIABLES
    ws,          \* Call.ws is Some(shard): the session is attached
    driver,      \* the "driver-core" feature: the Call owns a Driver
    connection,  \* Call.connection: Option<(ChannelId, ConnectionProgress, Return)>
    self_deaf,   \* Call.self_deaf
    self_mute,   \* Call.self_mute
    chans,       \* the flume channels created by join / join_gateway
    engineJobs,  \* per channel, the Sender clones the driver still holds
    applied,     \* the kinds of fragment applied to the live attempt (history)
    last,        \* the last call on the session and what it did
    lock,        \* the external mutex around the Call: who holds it
    pc,          \* position of the caller that joins under the mutex
    inflight,    \* fragments the gateway still has to hand to the receive loop
    TASK_COUNT,  \* the static AtomicU64 counters, by category
    tasks        \* the driver tasks and the token each one holds

sessVars == <<ws, driver, connection, self_deaf, self_mute, chans, engineJobs,
              applied, last>>
lockVars == <<lock, pc, inflight>>
taskVars == <<TASK_COUNT, tasks>>
vars == <<ws, driver, connection, self_deaf, self_mute, chans, engineJobs,
          applied, last, lock, pc, inflight, TASK_COUNT, tasks>>

\* Option<T> is a sequence of length 0 (None) or 1 (Some).
None == <<>>
Some(x) == <<x>>

\* ------------------------------------------------- ConnectionProgress

\* ConnectionProgress::new(guild_id, user_id): Incomplete, no fragment stored.
ProgressNew(g, u) ==
    [tag |-> "Incomplete", guild_id |-> g, user_id |-> u,
     server |-> None, session |-> None]

ProgressComplete(p, srv, sess) ==
    [tag |-> "Complete",
     info |-> [guild_id |-> p.guild_id, user_id |-> p.user_id,
               endpoint |-> srv.endpoint, token |-> srv.token,
               session_id |-> sess]]

\* apply_server_update: stores fragment 1; the result's flag is true iff this
\* call moves the tracker from Incomplete to Complete.
apply_server_update(p, srv) ==
    IF p.tag = "Complete" THEN [progress |-> p, try_conn |-> FALSE]
    ELSE IF p.session # None
         THEN [progress |-> ProgressComplete(p, srv, p.session[1]), try_conn |-> TRUE]
         ELSE [progress |-> [p EXCEPT !.server = Some(srv)], try_conn |-> FALSE]

\* apply_state_update: symmetric for fragment 2.
apply_state_update(p, sess) ==
    IF p.tag = "Complete" THEN [progress |-> p, try_conn |-> FALSE]
    ELSE IF p.server # None
         THEN [progress |-> ProgressComplete(p, p.server[1], sess), try_conn |-> TRUE]
         ELSE [progress |-> [p EXCEPT !.session = Some(sess)], try_conn |-> FALSE]

\* get_connection_info: present only once Complete.
get_connection_info(p) == IF p.tag = "Complete" THEN Some(p.info) ELSE None

\* ------------------------------------------------------- flume channels

\* A channel is: rx, its receiving end ("pending": the RecvFut is held and
\* unresolved; "gone": it resolved or was dropped); senders, the live Sender
\* handles; buf, the queue; delivered, how often do_connect handed an info
\* over for it (history).  "none" is a channel not created yet, "freed" one
\* whose two ends are both gone.
UnusedChan == [rx |-> "none", senders |-> 0, buf |-> <<>>, delivered |-> 0]
FreedChan == [rx |-> "freed", senders |-> 0, buf |-> <<>>, delivered |-> 0]

\* flume::unbounded(): one Sender, one Receiver, an empty queue.
NewChan == [rx |-> "pending", senders |-> 1, buf |-> <<>>, delivered |-> 0]

\* The index flume::unbounded() gives the next channel.
FreshIx == Cardinality({a \in ChanIx : chans[a].rx # "none"}) + 1

\* Sender::send: queues v while the Receiver lives; once the Receiver is gone
\* it returns an Err, which every caller here ignores.
Send(c, v) == IF c.rx = "pending" THEN [c EXCEPT !.buf = Append(@, v)] ELSE c

\* A channel is freed, with what it still queues, when its last end goes.
Reap(ch) ==
    [a \in ChanIx |-> IF ch[a].rx = "gone" /\ ch[a].senders = 0
                      THEN FreedChan ELSE ch[a]]

\* Overwriting or clearing Call.connection drops the Sender in its Return.
DropReturn(ch, conn) ==
    IF conn = None THEN ch
    ELSE Reap([ch EXCEPT ![conn[1].ret.tx].senders = @ - 1])

\* What travels through a channel: a ConnectionInfo (Return::Info) or the
\* driver's ConnectionResult<()> (Return::Conn).
InfoVal(c) == [tag |-> "Info", info |-> Some(c), res |-> "-"]
ConnVal(r) == [tag |-> "Conn", info |-> None, res |-> r]

\* ------------------------------------------------------------ the Call

\* The record kept of the last step: the call, its arguments, what it
\* returned, the payloads it sent over the shard, the driver calls it made,
\* the info it sent into a Return::Info sink, the channel whose RecvFut it
\* handed back (or, for a poll, resolved) and the value a poll received.
Did(op, chan, flag, frag, result, sent, engine, sunk, fut, got) ==
    [op |-> op, chan |-> chan, flag |-> flag, frag |-> frag, result |-> result,
     sent |-> sent, engine |-> engine, sunk |-> sunk, fut |-> fut, got |-> got]

\* A driver call as the record of the last step keeps it.
DriverCall(name, info) == [call |-> name, info |-> info]

\* The json! payload of update().
VoiceStateUpdate(conn, deaf, mute) ==
    [op |-> 4,
     channel_id |-> IF conn = None THEN None ELSE Some(conn[1].channel),
     guild_id |-> GuildIdOf, self_deaf |-> deaf, self_mute |-> mute]

\* update(): sends the payload over the shard, or fails with NoSender.
update(conn, deaf, mute) ==
    IF ws THEN [sent |-> <<VoiceStateUpdate(conn, deaf, mute)>>, result |-> "Ok"]
    ELSE [sent |-> <<>>, result |-> "NoSender"]

current_connection == IF connection = None THEN None
                      ELSE get_connection_info(connection[1].progress)
current_channel == IF connection = None THEN None ELSE Some(connection[1].channel)
is_deaf == self_deaf
is_mute == self_mute

\* do_connect acting on attempt conn: what becomes of the channels and the
\* driver's jobs, which driver calls it makes, what it sends into the sink.
NoConnect(ch, jobs) == [chans |-> ch, jobs |-> jobs, engine |-> {}, sunk |-> None]

\* do_connect without the Return::Conn arm.
do_connect_info_only(conn, ch, jobs) ==
    IF conn # None /\ conn[1].progress.tag = "Complete" /\ conn[1].ret.kind = "Info"
    THEN LET a == conn[1].ret.tx
             c == conn[1].progress.info
         IN [chans |-> [ch EXCEPT ![a] = [Send(@, InfoVal(c)) EXCEPT
                                            !.delivered = @ + 1]],
             jobs |-> jobs,
             engine |-> {}, sunk |-> Some(c)]
    ELSE NoConnect(ch, jobs)

\* do_connect that hands nothing over once the receiving end is gone.
do_connect_if_receiver(conn, ch, jobs) ==
    IF conn # None /\ conn[1].progress.tag = "Complete"
       /\ ch[conn[1].ret.tx].rx = "pending"
    THEN LET a == conn[1].ret.tx
             c == conn[1].progress.info
         IN IF conn[1].ret.kind = "Info"
            THEN [chans |-> [ch EXCEPT ![a] = [Send(@, InfoVal(c)) EXCEPT
                                                 !.delivered = @ + 1]],
                  jobs |-> jobs,
                  engine |-> {}, sunk |-> Some(c)]
            ELSE [chans |-> [ch EXCEPT ![a].senders = @ + 1,
                                       ![a].delivered = @ + 1],
                  jobs |-> [jobs EXCEPT ![a] = @ + 1],
                  engine |-> {DriverCall("raw_connect", Some(c))}, sunk |-> None]
    ELSE NoConnect(ch, jobs)

\* do_connect without the Return::Info arm.
do_connect_conn_only(conn, ch, jobs) ==
    IF conn # None /\ conn[1].progress.tag = "Complete" /\ conn[1].ret.kind = "Conn"
    THEN LET a == conn[1].ret.tx
             c == conn[1].progress.info
         IN [chans |-> [ch EXCEPT ![a].senders = @ + 1,
                                  ![a].delivered = @ + 1],
             jobs |-> [jobs EXCEPT ![a] = @ + 1],
             engine |-> {DriverCall("raw_connect", Some(c))}, sunk |-> None]
    ELSE NoConnect(ch, jobs)

do_connect(conn, ch, jobs) ==
    IF conn # None /\ conn[1].progress.tag = "Complete"
    THEN LET a == conn[1].ret.tx
             c == conn[1].progress.info
         IN IF conn[1].ret.kind = "Info"
            THEN [chans |-> [ch EXCEPT ![a] = [Send(@, InfoVal(c)) EXCEPT
                                                 !.delivered = @ + 1]],
                  jobs |-> jobs,
                  engine |-> {}, sunk |-> Some(c)]
            ELSE [chans |-> [ch EXCEPT ![a].senders = @ + 1,
                                       ![a].delivered = @ + 1],
                  jobs |-> [jobs EXCEPT ![a] = @ + 1],
                  engine |-> {DriverCall("raw_connect", Some(c))}, sunk |-> None]
    ELSE NoConnect(ch, jobs)

\* JoinWith with the old attempt's tracker carried over into the new attempt.
JoinWithOldProgress(op, kind, c) ==
    LET a == FreshIx
        conn == Some([channel |-> c,
                      progress |-> IF connection = None
                                   THEN ProgressNew(GuildIdOf, UserIdOf)
                                   ELSE connection[1].progress,
                      ret |-> [kind |-> kind, tx |-> a]])
        u == update(conn, self_deaf, self_mute)
    IN /\ a \in ChanIx
       /\ connection' = conn
       /\ chans' = [DropReturn(chans, connection) EXCEPT
                      ![a] = IF u.result = "Ok" THEN NewChan
                             ELSE [NewChan EXCEPT !.rx = "gone"]]
       /\ applied' = {}
       /\ last' = Did(op, Some(c), None, None, u.result, u.sent, {}, None,
                      IF u.result = "Ok" THEN a ELSE 0, None)
       /\ UNCHANGED <<ws, driver, self_deaf, self_mute, engineJobs>>

\* JoinWith with the old attempt's Return kept alive instead of dropped.
JoinWithKeepReturn(op, kind, c) ==
    LET a == FreshIx
        conn == Some([channel |-> c,
                      progress |-> ProgressNew(GuildIdOf, UserIdOf),
                      ret |-> [kind |-> kind, tx |-> a]])
        u == update(conn, self_deaf, self_mute)
    IN /\ a \in ChanIx
       /\ connection' = conn
       /\ chans' = [chans EXCEPT
                      ![a] = IF u.result = "Ok" THEN NewChan
                             ELSE [NewChan EXCEPT !.rx = "gone"]]
       /\ applied' = {}
       /\ last' = Did(op, Some(c), None, None, u.result, u.sent, {}, None,
                      IF u.result = "Ok" THEN a ELSE 0, None)
       /\ UNCHANGED <<ws, driver, self_deaf, self_mute, engineJobs>>

\* JoinWith with the signaling channel checked before the attempt is touched.
JoinWithValidateFirst(op, kind, c) ==
    LET a == FreshIx
        conn == Some([channel |-> c,
                      progress |-> ProgressNew(GuildIdOf, UserIdOf),
                      ret |-> [kind |-> kind, tx |-> a]])
        u == update(conn, self_deaf, self_mute)
    IN /\ a \in ChanIx
       /\ connection' = IF ws THEN conn ELSE connection
       /\ chans' = IF ws THEN [DropReturn(chans, connection) EXCEPT ![a] = NewChan]
                   ELSE [chans EXCEPT ![a] = FreedChan]
       /\ applied' = IF ws THEN {} ELSE applied
       /\ last' = Did(op, Some(c), None, None, u.result, u.sent, {}, None,
                      IF u.result = "Ok" THEN a ELSE 0, None)
       /\ UNCHANGED <<ws, driver, self_deaf, self_mute, engineJobs>>

\* The body shared by join and join_gateway: a new channel, the attempt
\* replaced, then update(); the receiver is handed back only on Ok and is
\* dropped on Err.
JoinWith(op, kind, c) ==
    LET a == FreshIx
        conn == Some([channel |-> c,
                      progress |-> ProgressNew(GuildIdOf, UserIdOf),
                      ret |-> [kind |-> kind, tx |-> a]])
        u == update(conn, self_deaf, self_mute)
    IN /\ a \in ChanIx
       /\ connection' = conn
       /\ chans' = [DropReturn(chans, connection) EXCEPT
                      ![a] = IF u.result = "Ok" THEN NewChan
                             ELSE [NewChan EXCEPT !.rx = "gone"]]
       /\ applied' = {}
       /\ last' = Did(op, Some(c), None, None, u.result, u.sent, {}, None,
                      IF u.result = "Ok" THEN a ELSE 0, None)
       /\ UNCHANGED <<ws, driver, self_deaf, self_mute, engineJobs>>

join(c) == driver /\ JoinWith("join", "Conn", c)

join_gateway(c) == JoinWith("join_gateway", "Info", c)

\* leave with the attempt left in place.
leave_keeps_attempt ==
    LET u == update(connection, self_deaf, self_mute)
    IN /\ last' = Did("leave", None, None, None, u.result, u.sent,
                      IF driver THEN {DriverCall("leave", None)} ELSE {},
                      None, 0, None)
       /\ UNCHANGED <<ws, driver, connection, self_deaf, self_mute, chans,
                      engineJobs, applied>>

\* leave that gives up, with the attempt untouched, when there is no shard.
leave_if_sender ==
    LET u == update(None, self_deaf, self_mute)
    IN /\ connection' = IF ws THEN None ELSE connection
       /\ chans' = IF ws THEN DropReturn(chans, connection) ELSE chans
       /\ applied' = IF ws THEN {} ELSE applied
       /\ last' = Did("leave", None, None, None, u.result, u.sent,
                      IF driver /\ ws THEN {DriverCall("leave", None)} ELSE {},
                      None, 0, None)
       /\ UNCHANGED <<ws, driver, self_deaf, self_mute, engineJobs>>

\* leave that also resets the local flags.
leave_forgets_settings ==
    LET u == update(None, FALSE, FALSE)
    IN /\ connection' = None
       /\ chans' = DropReturn(chans, connection)
       /\ applied' = {}
       /\ self_deaf' = FALSE /\ self_mute' = FALSE
       /\ last' = Did("leave", None, None, None, u.result, u.sent,
                      IF driver THEN {DriverCall("leave", None)} ELSE {},
                      None, 0, None)
       /\ UNCHANGED <<ws, driver, engineJobs>>

leave ==
    LET u == update(None, self_deaf, self_mute)
    IN /\ connection' = None
       /\ chans' = DropReturn(chans, connection)
       /\ applied' = {}
       /\ last' = Did("leave", None, None, None, u.result, u.sent,
                      IF driver THEN {DriverCall("leave", None)} ELSE {},
                      None, 0, None)
       /\ UNCHANGED <<ws, driver, self_deaf, self_mute, engineJobs>>

mute(b) ==
    LET u == update(connection, self_deaf, b)
    IN /\ self_mute' = b
       /\ last' = Did("mute", None, Some(b), None, u.result, u.sent,
                      IF driver THEN {DriverCall("mute", None)} ELSE {},
                      None, 0, None)
       /\ UNCHANGED <<ws, driver, connection, self_deaf, chans, engineJobs, applied>>

\* deafen with the update sent before the flag is stored.
deafen_update_first(b) ==
    LET u == update(connection, self_deaf, self_mute)
    IN /\ self_deaf' = b
       /\ last' = Did("deafen", None, Some(b), None, u.result, u.sent, {},
                      None, 0, None)
       /\ UNCHANGED <<ws, driver, connection, self_mute, chans, engineJobs, applied>>

deafen(b) ==
    LET u == update(connection, b, self_mute)
    IN /\ self_deaf' = b
       /\ last' = Did("deafen", None, Some(b), None, u.result, u.sent, {},
                      None, 0, None)
       /\ UNCHANGED <<ws, driver, connection, self_mute, chans, engineJobs, applied>>

\* A fragment call as the record of the last step keeps it.
ServerCall(srv) == [kind |-> "server", srv |-> Some(srv), sess |-> None]
StateCall(sess) == [kind |-> "state", srv |-> None, sess |-> Some(sess)]

\* Fragment with do_connect called whatever the tracker answered.
FragmentAlwaysConnect(op, r, call) ==
    LET conn == IF r = None THEN None
                ELSE Some([connection[1] EXCEPT !.progress = r[1].progress])
        d == do_connect(conn, chans, engineJobs)
    IN /\ connection' = conn
       /\ chans' = d.chans
       /\ engineJobs' = d.jobs
       /\ applied' = IF r = None THEN applied ELSE applied \cup {call.kind}
       /\ last' = Did(op, None, None, Some(call), "unit", <<>>, d.engine,
                      d.sunk, 0, None)
       /\ UNCHANGED <<ws, driver, self_deaf, self_mute>>

\* Fragment that counts a fragment received while there is no attempt.
FragmentCountsIdle(op, r, call) ==
    LET conn == IF r = None THEN None
                ELSE Some([connection[1] EXCEPT !.progress = r[1].progress])
        d == IF r # None /\ r[1].try_conn
             THEN do_connect(conn, chans, engineJobs)
             ELSE NoConnect(chans, engineJobs)
    IN /\ connection' = conn
       /\ chans' = d.chans
       /\ engineJobs' = d.jobs
       /\ applied' = applied \cup {call.kind}
       /\ last' = Did(op, None, None, Some(call), "unit", <<>>, d.engine,
                      d.sunk, 0, None)
       /\ UNCHANGED <<ws, driver, self_deaf, self_mute>>

\* The body shared by update_server and update_state: r is what the tracker
\* answered (absent when there is no attempt), call the fragment.
Fragment(op, r, call) ==
    LET conn == IF r = None THEN None
                ELSE Some([connection[1] EXCEPT !.progress = r[1].progress])
        d == IF r # None /\ r[1].try_conn
             THEN do_connect(conn, chans, engineJobs)
             ELSE NoConnect(chans, engineJobs)
    IN /\ connection' = conn
       /\ chans' = d.chans
       /\ engineJobs' = d.jobs
       /\ applied' = IF r = None THEN applied ELSE applied \cup {call.kind}
       /\ last' = Did(op, None, None, Some(call), "unit", <<>>, d.engine,
                      d.sunk, 0, None)
       /\ UNCHANGED <<ws, driver, self_deaf, self_mute>>

update_server(srv) ==
    Fragment("update_server",
             IF connection # None
             THEN Some(apply_server_update(connection[1].progress, srv))
             ELSE None,
             ServerCall(srv))

update_state(sess) ==
    Fragment("update_state",
             IF connection # None
             THEN Some(apply_state_update(connection[1].progress, sess))
             ELSE None,
             StateCall(sess))

\* ------------------------------------------------ the caller's future

NoCall(op) == Did(op, None, None, None, "unit", <<>>, {}, None, 0, None)

\* RecvFut polled: a queued value first, Disconnected once every Sender is
\* gone, pending (no step) otherwise.  Resolving consumes the receiver.
FuturePoll(a) ==
    /\ chans[a].rx = "pending"
    /\ \/ /\ chans[a].buf # <<>>
          /\ last' = Did("poll", None, None, None, "Value", <<>>, {}, None, a,
                         Some(Head(chans[a].buf)))
       \/ /\ chans[a].buf = <<>>
          /\ chans[a].senders = 0
          /\ last' = Did("poll", None, None, None, "Disconnected", <<>>, {},
                         None, a, None)
    /\ chans' = Reap([chans EXCEPT ![a].rx = "gone", ![a].buf = <<>>])
    /\ UNCHANGED <<ws, driver, connection, self_deaf, self_mute, engineJobs, applied>>

\* The caller drops the RecvFut unresolved.
FutureDrop(a) ==
    /\ chans[a].rx = "pending"
    /\ chans' = Reap([chans EXCEPT ![a].rx = "gone", ![a].buf = <<>>])
    /\ last' = NoCall("async")
    /\ UNCHANGED <<ws, driver, connection, self_deaf, self_mute, engineJobs, applied>>

\* ---------------------------------------------------------- the driver

\* The driver reports the outcome of a connect, success or failure, through
\* its Sender clone, which it then drops.
EngineReport(a, res) ==
    /\ engineJobs[a] > 0
    /\ engineJobs' = [engineJobs EXCEPT ![a] = @ - 1]
    /\ chans' = Reap([chans EXCEPT ![a] = [Send(@, ConnVal(res)) EXCEPT
                                             !.senders = @ - 1]])
    /\ last' = NoCall("async")
    /\ UNCHANGED <<ws, driver, connection, self_deaf, self_mute, applied>>

\* ------------------------------------------- task accounting (stats.rs)

\* A u64 is its four 16-bit words, lowest first.
U64Zero == [i \in 1..Words |-> 0]

\* x + 1 on 64 bits, from word i on: the carry runs up and falls off the top.
RECURSIVE AddOneFrom(_, _)
AddOneFrom(x, i) ==
    IF i > Words THEN x
    ELSE IF x[i] < WordMax THEN [x EXCEPT ![i] = @ + 1]
    ELSE AddOneFrom([x EXCEPT ![i] = 0], i + 1)

\* x - 1 on 64 bits, from word i on: the borrow runs up and falls off the top.
RECURSIVE SubOneFrom(_, _)
SubOneFrom(x, i) ==
    IF i > Words THEN x
    ELSE IF x[i] > 0 THEN [x EXCEPT ![i] = @ - 1]
    ELSE SubOneFrom([x EXCEPT ![i] = WordMax], i + 1)

\* The u64 of a natural number.
RECURSIVE U64(_)
U64(n) == IF n = 0 THEN U64Zero ELSE AddOneFrom(U64(n - 1), 1)

\* X_TASK_COUNT.fetch_add(1, SeqCst) / fetch_sub(1, SeqCst): one atomic
\* wrapping read-modify-write of the category's counter.
fetch_add(cat) == [TASK_COUNT EXCEPT ![cat] = AddOneFrom(@, 1)]
fetch_sub(cat) == [TASK_COUNT EXCEPT ![cat] = SubOneFrom(@, 1)]

\* X_TASK_COUNT.load(SeqCst), as global_songbird_tasks() reads it.
load(cat) == TASK_COUNT[cat]

\* The ways a task's scope ends: it returns, its future is dropped, it
\* unwinds from a panic.
ExitPaths == {"return", "cancel", "panic"}

\* A task: where it stands, the token it owns, how often Drop ran on it.
IdleTask == [state |-> "idle", token |-> None, drops |-> 0]

\* XTaskToken::new() with the wrong counter: CORE_TASK_COUNT, whatever X is.
TokenNewCountsCore(t, cat) ==
    /\ tasks[t].state = "idle"
    /\ TASK_COUNT' = fetch_add("CORE")
    /\ tasks' = [tasks EXCEPT ![t] =
                    [state |-> "running",
                     token |-> Some([cat |-> cat, illegal_init |-> 0]),
                     drops |-> 0]]

\* XTaskToken::new(), at the start of task t: counts, then builds the token.
TokenNew(t, cat) ==
    /\ tasks[t].state = "idle"
    /\ TASK_COUNT' = fetch_add(cat)
    /\ tasks' = [tasks EXCEPT ![t] =
                    [state |-> "running",
                     token |-> Some([cat |-> cat, illegal_init |-> 0]),
                     drops |-> 0]]

\* A token that is released only when its task returns normally.
TokenDropOnReturn(t, path) ==
    /\ tasks[t].state = "running"
    /\ TASK_COUNT' = IF path = "return" THEN fetch_sub(tasks[t].token[1].cat)
                     ELSE TASK_COUNT
    /\ tasks' = [tasks EXCEPT ![t] =
                    [state |-> path, token |-> None,
                     drops |-> IF path = "return" THEN @.drops + 1 ELSE @.drops]]

\* Drop for XTaskToken, run when the scope of task t ends by path.
TokenDrop(t, path) ==
    /\ tasks[t].state = "running"
    /\ TASK_COUNT' = fetch_sub(tasks[t].token[1].cat)
    /\ tasks' = [tasks EXCEPT ![t] =
                    [state |-> path, token |-> None, drops |-> @.drops + 1]]

\* Process start: every counter 0, no task running.
InitTasks ==
    /\ TASK_COUNT = [cat \in Categories |-> U64Zero]
    /\ tasks = [t \in Tasks |-> IdleTask]

\* ------------------------------------------------------ specification

\* Call::new / Call::standalone, with or without the driver.
InitSession ==
    /\ ws \in BOOLEAN
    /\ driver \in BOOLEAN
    /\ connection = None
    /\ self_deaf = FALSE
    /\ self_mute = FALSE
    /\ chans = [a \in ChanIx |-> UnusedChan]
    /\ engineJobs = [a \in ChanIx |-> 0]
    /\ applied = {}
    /\ last = NoCall("new")

Init ==
    /\ InitSession /\ lock = "free" /\ pc = "idle" /\ inflight = {}
    /\ InitTasks

Next ==
    \/ \E c \in ChannelIds : join(c) /\ UNCHANGED <<lockVars, taskVars>>
    \/ \E c \in ChannelIds : join_gateway(c) /\ UNCHANGED <<lockVars, taskVars>>
    \/ leave /\ UNCHANGED <<lockVars, taskVars>>
    \/ \E b \in BOOLEAN : mute(b) /\ UNCHANGED <<lockVars, taskVars>>
    \/ \E b \in BOOLEAN : deafen(b) /\ UNCHANGED <<lockVars, taskVars>>
    \/ \E srv \in ServerFrags : update_server(srv) /\ UNCHANGED <<lockVars, taskVars>>
    \/ \E sess \in SessionIds : update_state(sess) /\ UNCHANGED <<lockVars, taskVars>>
    \/ \E a \in ChanIx : FuturePoll(a) /\ UNCHANGED <<lockVars, taskVars>>
    \/ \E a \in ChanIx : FutureDrop(a) /\ UNCHANGED <<lockVars, taskVars>>
    \/ \E a \in ChanIx, res \in {"Ok", "Err"} : EngineReport(a, res) /\ UNCHANGED <<lockVars, taskVars>>

Spec == Init /\ [][Next]_vars

\* The caller that keeps a future keeps polling it: a RecvFut that could
\* resolve is resolved (or dropped), never left unpolled for ever.
SpecFair ==
    /\ Init /\ [][Next]_vars
    /\ \A a \in ChanIx : WF_vars(FuturePoll(a) /\ UNCHANGED <<lockVars, taskVars>>)

\* ------------------------------------- the session behind a mutex

\* The caller takes the mutex that guards the Call.
CallerLock ==
    /\ pc = "idle" /\ lock = "free"
    /\ lock' = "caller" /\ pc' = "locked"
    /\ UNCHANGED <<sessVars, inflight, taskVars>>

\* Stage 1, under the mutex: the request goes out over the gateway, which
\* will answer with the two fragments.
CallerJoin(c) ==
    /\ pc = "locked" /\ lock = "caller"
    /\ join(c) \/ join_gateway(c)
    /\ pc' = "joined" /\ inflight' = {"server", "state"}
    /\ UNCHANGED <<lock, taskVars>>

\* The caller releases the mutex before it queries the result.
CallerRelease ==
    /\ pc = "joined"
    /\ lock' = "free" /\ pc' = "await"
    /\ UNCHANGED <<sessVars, inflight, taskVars>>

\* The caller queries the result with the mutex still held.
CallerHold ==
    /\ pc = "joined"
    /\ pc' = "await"
    /\ UNCHANGED <<sessVars, lock, inflight, taskVars>>

\* Stage 2: the await on the returned future resolves.
CallerAwait ==
    /\ pc = "await" /\ connection # None
    /\ FuturePoll(connection[1].ret.tx)
    /\ pc' = "done" /\ lock' = "free"
    /\ UNCHANGED <<inflight, taskVars>>

\* The signaling receive loop takes the mutex to hand a fragment over.
RecvLock ==
    /\ inflight # {} /\ lock = "free"
    /\ lock' = "recv"
    /\ UNCHANGED <<sessVars, pc, inflight, taskVars>>

\* Under the mutex it applies one fragment, then releases the mutex.
RecvApply ==
    /\ lock = "recv"
    /\ \/ /\ "server" \in inflight
          /\ \E srv \in ServerFrags : update_server(srv)
          /\ inflight' = inflight \ {"server"}
       \/ /\ "state" \in inflight
          /\ \E sess \in SessionIds : update_state(sess)
          /\ inflight' = inflight \ {"state"}
    /\ lock' = "free"
    /\ UNCHANGED <<pc, taskVars>>

\* The driver's connect worker runs outside the mutex.
EngineStep ==
    /\ \E a \in ChanIx, res \in {"Ok", "Err"} : EngineReport(a, res)
    /\ UNCHANGED <<lockVars, taskVars>>

Caller ==
    \/ CallerLock
    \/ \E c \in ChannelIds : CallerJoin(c)
    \/ CallerRelease
    \/ CallerHold
    \/ CallerAwait

RecvLoop == RecvLock \/ RecvApply

InitLock ==
    /\ InitSession /\ ws
    /\ lock = "free" /\ pc = "idle" /\ inflight = {}
    /\ InitTasks

NextLock == Caller \/ RecvLoop \/ EngineStep

\* Every task is scheduled again and again, and the mutex is handed to a
\* task that keeps waiting for it.
SpecLock ==
    /\ InitLock /\ [][NextLock]_vars
    /\ WF_vars(Caller) /\ WF_vars(RecvLoop) /\ WF_vars(EngineStep)

\* The driver's tasks alone, next to a Call that nobody uses.
NextTasks ==
    \/ \E t \in Tasks, cat \in Categories :
         TokenNew(t, cat) /\ UNCHANGED <<sessVars, lockVars>>
    \/ \E t \in Tasks, path \in ExitPaths :
         TokenDrop(t, path) /\ UNCHANGED <<sessVars, lockVars>>

\* Call::standalone without the driver, never called.
InitIdleCall == Init /\ ~ws /\ ~driver

SpecTasks == InitIdleCall /\ [][NextTasks]_vars

\* ------------------------------------------------------------- claims

FragmentOps == {"update_server", "update_state"}
JoinOps == {"join", "join_gateway"}

\* The step recorded in l handed a connection info over: into a
\* Return::Info sink, or to the driver's raw_connect.
HandedOver(l) ==
    (IF l.sunk # None THEN {l.sunk[1]} ELSE {})
        \cup {e.info[1] : e \in {x \in l.engine : x.call = "raw_connect"}}
DeliveredIn(l) == HandedOver(l) # {}

\* The channel of the live attempt.
Tx == connection[1].ret.tx

\* C1: for every attempt, do_connect hands the connection info over at most
\* once, and a step hands it over only if it is an update_server /
\* update_state call that moves the live attempt's tracker from Incomplete to
\* Complete; a fragment call on a Complete tracker hands nothing over.
C1_DeliverOnceOnTransition ==
    /\ [](\A a \in ChanIx : chans[a].delivered <= 1)
    /\ [][ /\ DeliveredIn(last') =>
                /\ last'.op \in FragmentOps
                /\ connection # None /\ connection' # None
                /\ connection'[1].ret = connection[1].ret
                /\ connection[1].progress.tag = "Incomplete"
                /\ connection'[1].progress.tag = "Complete"
           /\ \A a \in ChanIx :
                chans'[a].delivered > chans[a].delivered => DeliveredIn(last')
         ]_vars

\* A redundant fragment call on a completed attempt that delivered once.
C1_Witness ==
    /\ connection # None
    /\ connection[1].progress.tag = "Complete"
    /\ chans[Tx].delivered = 1
    /\ last.op \in FragmentOps
    /\ ~DeliveredIn(last)

\* A fragment call on a live attempt that brings the second kind of fragment:
\* after it update_server and update_state have both been applied since the
\* join, before it only one of them.
SecondFragment ==
    /\ last'.op \in FragmentOps
    /\ connection # None
    /\ applied # {"server", "state"}
    /\ applied' = {"server", "state"}

\* The fragments the attempt has received once that call is applied: the
\* call's own, and the one the tracker stored from the earlier call.
ServerGiven == IF last'.op = "update_server" THEN last'.frag[1].srv[1]
               ELSE connection[1].progress.server[1]
SessionGiven == IF last'.op = "update_state" THEN last'.frag[1].sess[1]
                ELSE connection[1].progress.session[1]

\* While the tracker stays Incomplete it stores the argument of the last
\* call of each kind.
StoresFragment ==
    (/\ last'.op \in FragmentOps
     /\ connection # None
     /\ connection'[1].progress.tag = "Incomplete") =>
        IF last'.op = "update_server"
        THEN /\ connection'[1].progress.server = last'.frag[1].srv
             /\ connection'[1].progress.session = connection[1].progress.session
        ELSE /\ connection'[1].progress.session = last'.frag[1].sess
             /\ connection'[1].progress.server = connection[1].progress.server

\* C2 as stated: on an attached session the call that brings the second
\* fragment after join(c) hands over, once, the info {channel: c, endpoint:
\* e, token: t, session: s}.
C2_Original ==
    [][ (ws /\ SecondFragment) =>
            /\ chans'[Tx].delivered = 1
            /\ \E i \in HandedOver(last') :
                 /\ "channel" \in DOMAIN i
                 /\ i.channel = connection[1].channel
                 /\ i.endpoint = ServerGiven.endpoint
                 /\ i.token = ServerGiven.token
                 /\ i.session_id = SessionGiven
      ]_vars

\* C2 (amended): on an attached session, join(c) followed by update_server(e,
\* t) and update_state(s) in either order, with no join or leave between,
\* invokes do_connect exactly once, on the second of the two, and the info
\* handed to the sink / the driver is {guild_id, user_id, endpoint: e, token:
\* t, session_id: s} of the session; it has no channel field: c stays in the
\* attempt, where current_channel() reports it.
C2_ConnectOnceWithInfo ==
    [][ /\ StoresFragment
        /\ (ws /\ SecondFragment) =>
             /\ chans[Tx].delivered = 0
             /\ chans'[Tx].delivered = 1
             /\ HandedOver(last') =
                  {[guild_id |-> GuildIdOf, user_id |-> UserIdOf,
                    endpoint |-> ServerGiven.endpoint,
                    token |-> ServerGiven.token,
                    session_id |-> SessionGiven]}
             /\ \A i \in HandedOver(last') : "channel" \notin DOMAIN i
             /\ connection'[1].channel = connection[1].channel
             /\ current_connection' = Some(CHOOSE i \in HandedOver(last') : TRUE)
      ]_vars

\* join(42), update_server("host:1234", "tok"), update_state("sess-1") on an
\* attached session: the info was handed to the driver.
C2_Witness ==
    /\ ws
    /\ current_channel = Some(42)
    /\ last.op = "update_state"
    /\ applied = {"server", "state"}
    /\ \E e \in last.engine :
         /\ e.call = "raw_connect"
         /\ e.info[1].endpoint = "host:1234"
         /\ e.info[1].token = "tok"
         /\ e.info[1].session_id = "sess-1"

\* Channel a belongs to an attempt that a later join / join_gateway replaced.
Replaced(a) == \E b \in ChanIx : b > a /\ chans[b].rx # "none"

\* The future of channel a is still held and do_connect never fired for it.
PendingUndelivered(a) == chans[a].rx = "pending" /\ chans[a].delivered = 0

\* C3: once a second join / join_gateway has replaced an attempt whose
\* handshake had not completed, the first attempt's future can only observe
\* Disconnected: its channel has no Sender left and queues nothing, in every
\* later state (whatever fragments arrive), and polling it yields
\* Disconnected, never a value.
C3_ReplacedFutureDisconnected ==
    /\ [](\A a \in ChanIx :
            (Replaced(a) /\ PendingUndelivered(a)) =>
                chans[a].senders = 0 /\ chans[a].buf = <<>>)
    /\ [][ \A a \in ChanIx :
             (/\ Replaced(a) /\ PendingUndelivered(a)
              /\ last'.op = "poll" /\ last'.fut = a) =>
                 last'.result = "Disconnected" /\ last'.got = None
         ]_vars

\* A replaced, incomplete attempt's future is still held after both
\* fragments have arrived for the attempt that replaced it.
C3_Witness ==
    /\ connection # None
    /\ connection[1].progress.tag = "Complete"
    /\ \E a \in ChanIx : a # Tx /\ Replaced(a) /\ PendingUndelivered(a)

\* C4 as stated: join / join_gateway on a standalone session returns
\* NoSender and leaves the attempt and the flags as they were.
C4_Original ==
    [][ (~ws /\ last'.op \in JoinOps) =>
            /\ last'.result = "NoSender"
            /\ connection' = connection
            /\ self_deaf' = self_deaf /\ self_mute' = self_mute
      ]_vars

\* C4 (amended): join / join_gateway on a standalone session returns
\* NoSender, sends nothing, hands back no future and leaves the flags alone,
\* but the attempt is replaced before the signaling channel is looked at:
\* after the failed call the attempt targets the requested channel, with a
\* fresh Incomplete tracker and a new sink whose receiving end is gone.
C4_StandaloneJoinReplaces ==
    [][ (~ws /\ last'.op \in JoinOps) =>
            /\ last'.result = "NoSender"
            /\ last'.sent = <<>> /\ last'.fut = 0
            /\ self_deaf' = self_deaf /\ self_mute' = self_mute
            /\ connection' # None
            /\ Some(connection'[1].channel) = last'.chan
            /\ connection'[1].progress = ProgressNew(GuildIdOf, UserIdOf)
            /\ connection'[1].ret.kind =
                   (IF last'.op = "join" THEN "Conn" ELSE "Info")
            /\ chans[connection'[1].ret.tx].rx = "none"
            /\ chans'[connection'[1].ret.tx] = [NewChan EXCEPT !.rx = "gone"]
      ]_vars

\* A standalone session whose second join failed with NoSender and switched
\* the attempt to the other channel.
C4_Witness ==
    /\ ~ws
    /\ last.op = "join" /\ last.result = "NoSender"
    /\ last.chan = Some(42)
    /\ current_channel = Some(42)
    /\ chans[1].rx # "none" /\ Tx = 2

\* C5 as stated: mute(b) / deafen(b) on a standalone session set the flag to
\* b, send no signaling message and return Ok.
C5_StandaloneMuteOk ==
    (~ws /\ last.op \in {"mute", "deafen"}) =>
        /\ (last.op = "mute" => is_mute = last.flag[1])
        /\ (last.op = "deafen" => is_deaf = last.flag[1])
        /\ last.sent = <<>>
        /\ last.result = "Ok"

\* C6 as stated: leave() with no active attempt returns no error, leaves the
\* attempt absent and the flags unchanged, and sends one update with a null
\* channel exactly when a signaling channel is attached.
C6_IdleLeaveNoError ==
    [][ (last'.op = "leave" /\ connection = None) =>
            /\ last'.result = "Ok"
            /\ connection' = None
            /\ self_deaf' = self_deaf /\ self_mute' = self_mute
            /\ last'.sent = IF ws THEN <<VoiceStateUpdate(None, self_deaf, self_mute)>>
                            ELSE <<>>
      ]_vars

\* A leave() call on a session with an active attempt.
LeaveOfAttempt == last'.op = "leave" /\ connection # None

\* After the step the future of channel a, if still held, can only observe
\* Disconnected: no Sender is left and nothing is queued.
OnlyDisconnected(a) ==
    chans'[a].rx = "pending" => chans'[a].senders = 0 /\ chans'[a].buf = <<>>

\* What leave() does besides settling the future.
LeaveClears ==
    /\ connection' = None
    /\ current_channel' = None /\ current_connection' = None
    /\ driver => DriverCall("leave", None) \in last'.engine
    /\ ws => last'.sent = <<VoiceStateUpdate(None, self_deaf, self_mute)>>
    /\ \A i \in 1..Len(last'.sent) : last'.sent[i].channel_id = None

\* C7 as stated: after leave() on a session with an active attempt the
\* attempt is cleared, a future still outstanding for it observes
\* Disconnected rather than a value, the driver's leave is called if a driver
\* is owned, and the update sent carries a null channel id.
C7_Original ==
    [][ LeaveOfAttempt => (LeaveClears /\ OnlyDisconnected(Tx)) ]_vars

\* C7 (amended): as stated, except that the outstanding future is sure to
\* observe Disconnected only if the attempt's handshake had not completed
\* (do_connect had not fired for it) when leave() was called; if it had, the
\* info already queued by join_gateway, or the outcome the driver still
\* reports through its own Sender after join, reaches the future as a value.
C7_LeaveClearsAttempt ==
    [][ /\ LeaveOfAttempt =>
             /\ LeaveClears
             /\ chans[Tx].delivered = 0 => OnlyDisconnected(Tx)
        /\ \A a \in ChanIx :
             (/\ last'.op = "poll" /\ last'.fut = a
              /\ chans[a].delivered = 0
              /\ (connection = None \/ Tx # a)) =>
                 last'.result = "Disconnected"
      ]_vars

\* leave() on an attached session with a driver has just cleared an attempt
\* whose handshake was incomplete and whose future is still held.
C7_Witness ==
    /\ ws /\ driver
    /\ last.op = "leave"
    /\ connection = None
    /\ \E a \in ChanIx : PendingUndelivered(a) /\ chans[a].senders = 0

C10_ValueNeedsBothFragments ==
    /\ [](\A a \in ChanIx : chans[a].buf # <<>> => chans[a].delivered >= 1)
    /\ []((connection # None /\ applied # {"server", "state"}) =>
            /\ chans[Tx].delivered = 0
            /\ chans[Tx].buf = <<>>
            /\ chans[Tx].senders >= 1
            /\ ~ENABLED FuturePoll(Tx))
    /\ [][ /\ \A a \in ChanIx :
                chans'[a].delivered > chans[a].delivered =>
                    /\ connection # None /\ connection' # None
                    /\ Tx = a /\ connection'[1].ret.tx = a
                    /\ applied' = {"server", "state"}
           /\ (last'.op = "poll" /\ last'.result = "Value") =>
                chans[last'.fut].delivered >= 1
         ]_vars

\* The live attempt's future has just resolved with a value.
C10_Witness ==
    /\ connection # None
    /\ last.op = "poll" /\ last.result = "Value" /\ last.fut = Tx
    /\ applied = {"server", "state"}

\* The caller awaits stage 2 with the mutex released / still held.
AwaitReleased == pc = "await" /\ lock # "caller"
AwaitHeld == pc = "await" /\ lock = "caller"

\* C9: with the Call behind a mutex shared by the caller and the receive
\* loop, a caller that releases the mutex after stage 1 always gets its
\* future resolved, and by then the receive loop has applied both fragments;
\* a caller that awaits stage 2 with the mutex held is stuck for good: the
\* receive loop cannot run update_server / update_state, both fragments stay
\* undelivered, the future cannot resolve and no step is left to any task.
C9_LockAcrossAwait ==
    /\ AwaitReleased ~> pc = "done"
    /\ [](pc = "done" => inflight = {} /\ applied = {"server", "state"})
    /\ [](AwaitHeld =>
            /\ inflight = {"server", "state"} /\ applied = {}
            /\ ~ENABLED RecvLoop
            /\ ~ENABLED CallerAwait
            /\ ~ENABLED NextLock)

\* The caller awaits the future of its join with the mutex held.
C9_Witness ==
    /\ AwaitHeld
    /\ connection # None /\ chans[Tx].rx = "pending"
    /\ last.op \in JoinOps /\ last.fut = Tx

\* The live attempt was made by join_gateway.
GatewayAttempt == connection # None /\ connection[1].ret.kind = "Info"

\* C11: on an attached session, once update_server and update_state have
\* both been applied to the attempt of a join_gateway(c) (in either order,
\* no join, join_gateway or leave between), the call that brings the second
\* fragment queues the completed handshake's info for the future without any
\* driver call; the driver's connect is never invoked for that attempt; and
\* the future, while it is kept, resolves, with that info as its value.
C11_GatewayFutureGetsInfo ==
    /\ [](GatewayAttempt => engineJobs[Tx] = 0)
    /\ [][ /\ (ws /\ SecondFragment /\ GatewayAttempt) =>
                /\ last'.engine = {} /\ engineJobs' = engineJobs
                /\ current_connection' # None
                /\ last'.sunk = current_connection'
                /\ chans[Tx].rx = "pending" =>
                      chans'[Tx].buf = <<InfoVal(current_connection'[1])>>
           /\ (GatewayAttempt /\ last'.op \in FragmentOps) =>
                \A e \in last'.engine : e.call # "raw_connect"
           /\ (GatewayAttempt /\ last'.op = "poll" /\ last'.fut = Tx) =>
                /\ last'.result = "Value"
                /\ last'.got = Some(InfoVal(current_connection[1]))
           /\ \A a \in ChanIx :
                (/\ chans[a].rx = "pending" /\ chans[a].buf # <<>>
                 /\ chans'[a].rx # "pending" /\ last'.op # "async") =>
                    /\ last'.op = "poll" /\ last'.fut = a
                    /\ last'.got = Some(Head(chans[a].buf))
         ]_vars
    /\ \A a \in ChanIx :
         (chans[a].rx = "pending" /\ chans[a].buf # <<>>)
             ~> (chans[a].rx # "pending")

\* On an attached session the future of join_gateway(42) has resolved with
\* the info of update_state("sess-2") and update_server("host:5678", "tok2").
C11_Witness ==
    /\ ws /\ GatewayAttempt
    /\ current_channel = Some(42)
    /\ last.op = "poll" /\ last.fut = Tx /\ last.result = "Value"
    /\ last.got = Some(InfoVal([guild_id |-> GuildIdOf, user_id |-> UserIdOf,
                                 endpoint |-> "host:5678", token |-> "tok2",
                                 session_id |-> "sess-2"]))
    /\ engineJobs[Tx] = 0

\* The session: everything of the Call but the receiving ends of its sinks.
Session == <<ws, driver, connection, self_deaf, self_mute, engineJobs, applied>>

\* A step in which the caller drops the future of channel a unresolved.
DropOf(a) ==
    /\ chans[a].rx = "pending" /\ chans'[a].rx # "pending"
    /\ last'.op = "async" /\ engineJobs' = engineJobs

\* The channels as they would be with the future of channel a still held.
KeptFuture(ch, a) == [ch EXCEPT ![a].rx = "pending"]

\* A fragment call on a live attempt whose future is gone.
FragmentOnAbandoned ==
    /\ last'.op \in FragmentOps
    /\ connection # None
    /\ chans[Tx].rx = "gone"

\* What do_connect does on that call had the future been kept.
WithFutureKept ==
    IF connection[1].progress.tag = "Incomplete"
       /\ connection'[1].progress.tag = "Complete"
    THEN do_connect(connection', KeptFuture(chans, Tx), engineJobs)
    ELSE NoConnect(KeptFuture(chans, Tx), engineJobs)

\* C12: dropping the stage-2 future changes nothing of the session (attempt,
\* tracker progress, flags, driver jobs) and leaves every session call as
\* available as before; a later fragment call on the abandoned attempt
\* returns without error and does to the session what it does with the
\* future kept: the same tracker progress, the same driver calls, the same
\* info handed to the sink, the same Sender handles; only, nothing is queued.
C12_DropFutureNoEffect ==
    [][ /\ \A a \in ChanIx :
             DropOf(a) =>
                 /\ Session' = Session
                 /\ \A b \in ChanIx \ {a} :
                      chans'[b] = chans[b] \/ chans'[b] = FreedChan
                 /\ chans'[a] \in {[chans[a] EXCEPT !.rx = "gone", !.buf = <<>>],
                                   FreedChan}
                 /\ \A c \in ChannelIds :
                      /\ (ENABLED join(c)) <=> (ENABLED join(c))'
                      /\ (ENABLED join_gateway(c)) <=> (ENABLED join_gateway(c))'
        /\ FragmentOnAbandoned =>
             /\ last'.result = "unit" /\ last'.sent = <<>>
             /\ connection'[1].ret = connection[1].ret
             /\ last'.engine = WithFutureKept.engine
             /\ last'.sunk = WithFutureKept.sunk
             /\ engineJobs' = WithFutureKept.jobs
             /\ chans'[Tx].senders = WithFutureKept.chans[Tx].senders
             /\ chans'[Tx].delivered = WithFutureKept.chans[Tx].delivered
             /\ chans'[Tx].rx = "gone" /\ chans'[Tx].buf = <<>>
             /\ SecondFragment =>
                  /\ current_connection' # None
                  /\ DeliveredIn(last')
      ]_vars

\* On an attached session the future of join_gateway was dropped, and the
\* fragment that completed the handshake then sent the info into its sink.
C12_Witness ==
    /\ ws /\ GatewayAttempt
    /\ chans[Tx].rx = "gone" /\ chans[Tx].buf = <<>>
    /\ last.op \in FragmentOps
    /\ last.sunk # None /\ last.sunk = current_connection

\* No join / join_gateway has been called yet.
BeforeFirstJoin == \A a \in ChanIx : chans[a].rx = "none"

\* C13: current_channel() is present exactly when an attempt exists, and is
\* the channel of the join / join_gateway call that made the attempt;
\* current_connection() is present only when an attempt exists, its tracker
\* is Complete and both fragments were applied to it; both are absent before
\* the first join and after leave, and only join, join_gateway and leave
\* change current_channel().
C13_ObserversFollowAttempt ==
    /\ [](current_channel # None <=> connection # None)
    /\ [](connection # None => current_channel = Some(connection[1].channel))
    /\ [](current_connection # None =>
            /\ connection # None
            /\ connection[1].progress.tag = "Complete"
            /\ applied = {"server", "state"}
            /\ current_connection = Some(connection[1].progress.info))
    /\ [](BeforeFirstJoin => current_channel = None /\ current_connection = None)
    /\ [](last.op = "leave" => current_channel = None /\ current_connection = None)
    /\ [](last.op \in JoinOps =>
            current_channel = last.chan /\ current_connection = None)
    /\ [][ last'.op \notin JoinOps \cup {"leave"} =>
                current_channel' = current_channel ]_vars

\* After join(41) and a leave, join_gateway(42) and both fragments: the
\* observers report channel 42 and the completed info.
C13_Witness ==
    /\ chans[1].rx # "none" /\ connection # None /\ Tx = 2
    /\ current_channel = Some(42)
    /\ current_connection # None
    /\ current_connection[1].session_id = "sess-1"

\* The channels whose Sender the Call itself holds (the driver holds its
\* own clones): the sinks of live attempts.
LiveSinks == {a \in ChanIx : chans[a].senders > engineJobs[a]}

\* C16: every join / join_gateway call replaces the attempt wholesale: the
\* new attempt has the requested channel, a fresh Incomplete tracker with no
\* fragment stored and a new sink, and the Sender of the attempt it replaces
\* is dropped, so that at most one attempt is live in every state; do_connect
\* fires for the live attempt only on a call that leaves both update_server
\* and update_state applied since the join that made it, whatever fragments
\* the replaced attempt had received.
C16_JoinReplacesWholesale ==
    /\ [](Cardinality(LiveSinks) <= 1)
    /\ [](LiveSinks = IF connection = None THEN {} ELSE {Tx})
    /\ []((connection # None /\ applied # {"server", "state"}) =>
            /\ connection[1].progress.tag = "Incomplete"
            /\ chans[Tx].delivered = 0)
    /\ [][ /\ last'.op \in JoinOps =>
                /\ connection' =
                     Some([channel |-> last'.chan[1],
                           progress |-> ProgressNew(GuildIdOf, UserIdOf),
                           ret |-> [kind |-> IF last'.op = "join" THEN "Conn"
                                             ELSE "Info",
                                    tx |-> FreshIx]])
                /\ chans[FreshIx].rx = "none"
                /\ chans'[FreshIx].senders = 1 /\ chans'[FreshIx].delivered = 0
                /\ connection # None =>
                      chans'[Tx].senders = chans[Tx].senders - 1
           /\ (last'.op \in FragmentOps /\ DeliveredIn(last')) =>
                /\ applied # {"server", "state"}
                /\ applied' = {"server", "state"}
                /\ chans[Tx].delivered = 0
         ]_vars

\* The first attempt received both fragments and was then replaced; of the
\* second attempt only update_state has been called: nothing was handed over.
C16_Witness ==
    /\ chans[1].delivered = 1
    /\ connection # None /\ Tx = 2
    /\ last.op = "update_state" /\ ~DeliveredIn(last)
    /\ applied = {"state"}
    /\ connection[1].progress.tag = "Incomplete"

\* C17: update_server and update_state called while no attempt is active
\* (before any join, or after leave) return unit and change nothing: not the
\* session, not a channel; they make no driver call, send nothing into a
\* sink and nothing over the shard.  Nothing of the fragment is kept: the
\* attempt of a later join starts with no fragment stored.
C17_IdleFragmentNoEffect ==
    /\ [](connection = None => applied = {})
    /\ [][ /\ (last'.op \in FragmentOps /\ connection = None) =>
                /\ Session' = Session
                /\ chans' = chans
                /\ last'.result = "unit"
                /\ last'.sent = <<>> /\ last'.engine = {} /\ last'.sunk = None
                /\ ~DeliveredIn(last')
           /\ (last'.op \in JoinOps /\ connection = None) =>
                /\ connection'[1].progress.server = None
                /\ connection'[1].progress.session = None
                /\ applied' = {}
         ]_vars

\* update_server called after a leave, with no attempt active.
C17_Witness ==
    /\ ~BeforeFirstJoin
    /\ connection = None
    /\ last.op = "update_server"

\* C18: join, join_gateway, leave, update_server and update_state never
\* change self_deaf or self_mute; mute and deafen never change the attempt
\* (channel, tracker progress, sink), its channels or the driver's jobs and
\* never hand a connection info over; mute(b) sets self_mute to b and leaves
\* self_deaf alone, deafen(b) sets self_deaf to b and leaves self_mute alone.
C18_FlagsAndAttemptApart ==
    [][ /\ last'.op \in JoinOps \cup FragmentOps \cup {"leave"} =>
             self_deaf' = self_deaf /\ self_mute' = self_mute
        /\ last'.op \in {"mute", "deafen"} =>
             /\ connection' = connection
             /\ chans' = chans /\ engineJobs' = engineJobs
             /\ applied' = applied
             /\ last'.sunk = None /\ ~DeliveredIn(last')
        /\ last'.op = "mute" =>
             self_mute' = last'.flag[1] /\ self_deaf' = self_deaf
        /\ last'.op = "deafen" =>
             self_deaf' = last'.flag[1] /\ self_mute' = self_mute
      ]_vars

\* A session deafened and muted during an attempt has just left the channel
\* and still has both flags set.
C18_Witness ==
    /\ last.op = "leave"
    /\ ~BeforeFirstJoin
    /\ is_deaf /\ is_mute

\* C19: leave() on a standalone session with an active attempt sends nothing
\* and returns NoSender, and all the same clears the attempt (current_channel
\* and current_connection become absent), drops the Sender of the attempt's
\* sink and, where the Call owns a driver, calls the driver's leave; the
\* flags stay as they were.
C19_StandaloneLeaveClears ==
    [][ (~ws /\ last'.op = "leave" /\ connection # None) =>
            /\ last'.result = "NoSender" /\ last'.sent = <<>>
            /\ connection' = None
            /\ current_channel' = None /\ current_connection' = None
            /\ chans'[Tx].senders = chans[Tx].senders - 1
            /\ chans'[Tx].senders = engineJobs'[Tx]
            /\ last'.engine = IF driver THEN {DriverCall("leave", None)} ELSE {}
            /\ self_deaf' = self_deaf /\ self_mute' = self_mute
      ]_vars

\* A standalone session with a driver has left the one attempt it made, for
\* which the driver was connecting; the driver was asked to leave.
C19_Witness ==
    /\ ~ws /\ driver
    /\ last.op = "leave" /\ last.result = "NoSender"
    /\ DriverCall("leave", None) \in last.engine
    /\ connection = None
    /\ chans[1].senders = 1 /\ engineJobs[1] = 1
    /\ chans[2].rx = "none"

\* C20: on a standalone session a join / join_gateway call returns NoSender
\* and hands back no future, yet the attempt it installed is live:
\* current_channel() reports the requested channel, the sink's receiving end
\* is gone, and the second of update_server / update_state that follows
\* completes the tracker and fires do_connect, once: raw_connect on the
\* driver for join, a send that queues nothing for join_gateway.
C20_FailedJoinStaysLive ==
    /\ []((~ws /\ connection # None) =>
            /\ chans[Tx].rx = "gone" /\ chans[Tx].buf = <<>>
            /\ chans[Tx].delivered <= 1)
    /\ [][ /\ (~ws /\ last'.op \in JoinOps) =>
                /\ last'.result = "NoSender" /\ last'.fut = 0
                /\ current_channel' = last'.chan
                /\ current_connection' = None
           /\ (~ws /\ SecondFragment) =>
                /\ current_channel' = current_channel
                /\ current_connection' # None
                /\ chans[Tx].delivered = 0 /\ chans'[Tx].delivered = 1
                /\ HandedOver(last') = {current_connection'[1]}
                /\ IF connection[1].ret.kind = "Conn"
                   THEN /\ last'.engine =
                             {DriverCall("raw_connect", current_connection')}
                        /\ last'.sunk = None
                        /\ engineJobs'[Tx] = engineJobs[Tx] + 1
                   ELSE /\ last'.engine = {}
                        /\ last'.sunk = current_connection'
                        /\ chans'[Tx].buf = <<>>
           /\ (~ws /\ last'.op \in FragmentOps /\ ~SecondFragment) =>
                ~DeliveredIn(last')
         ]_vars

\* On a standalone session join_gateway(41) failed with NoSender; the two
\* fragments then completed its attempt and the info went into the sink.
C20_Witness ==
    /\ ~ws /\ GatewayAttempt
    /\ current_channel = Some(41)
    /\ last.op \in FragmentOps
    /\ last.sunk # None /\ last.sunk = current_connection
    /\ chans[Tx].rx = "gone" /\ chans[Tx].delivered = 1

\* The tasks that own a live token of category cat: created, not yet dropped.
LiveTokens(cat) ==
    {t \in Tasks : tasks[t].token # None /\ tasks[t].token[1].cat = cat}

\* The counter of category cat is at its lowest / highest value.
AtZero(cat) == TASK_COUNT[cat] = U64Zero
AtMax(cat) == \A i \in 1..Words : TASK_COUNT[cat][i] = WordMax

\* C14: in every state, for each of the seven categories, the counter reads
\* the number of live tokens of that category; no fetch_sub is ever applied
\* to a counter at 0 and no fetch_add to a counter at its maximum, so the
\* unsigned counter never wraps around.
C14_CounterIsLiveTokens ==
    /\ [](\A cat \in Categories : load(cat) = U64(Cardinality(LiveTokens(cat))))
    /\ [][ \A cat \in Categories :
             /\ TASK_COUNT'[cat] = SubOneFrom(TASK_COUNT[cat], 1) => ~AtZero(cat)
             /\ TASK_COUNT'[cat] = AddOneFrom(TASK_COUNT[cat], 1) => ~AtMax(cat)
             /\ TASK_COUNT'[cat] \in {TASK_COUNT[cat],
                                      SubOneFrom(TASK_COUNT[cat], 1),
                                      AddOneFrom(TASK_COUNT[cat], 1)}
         ]_vars

\* Two live MIXER tokens and one live WS token, after a task has exited.
C14_Witness ==
    /\ Cardinality(LiveTokens("MIXER")) = 2 /\ load("MIXER") = U64(2)
    /\ Cardinality(LiveTokens("WS")) = 1 /\ load("WS") = U64(1)
    /\ load("CORE") = U64Zero

\* Every task has acquired its token and its scope has ended.
AllReleased == \A t \in Tasks : tasks[t].state \in ExitPaths

\* C15: whatever the interleaving of the tasks' fetch_add and fetch_sub and
\* whatever the order of the releases, once every task has released its
\* token every counter reads 0; a step of one task moves one counter by
\* exactly one; and on each exit path (return, cancellation, panic) Drop
\* runs exactly once on the task's token: never while the task runs, never
\* a second time.
C15_AllReleasedReadsZero ==
    /\ [](AllReleased => \A cat \in Categories : load(cat) = U64Zero)
    /\ [](\A t \in Tasks :
            /\ tasks[t].state \in ExitPaths =>
                  tasks[t].drops = 1 /\ tasks[t].token = None
            /\ tasks[t].state = "running" =>
                  tasks[t].drops = 0 /\ tasks[t].token # None
            /\ tasks[t].state = "idle" =>
                  tasks[t].drops = 0 /\ tasks[t].token = None)
    /\ [][ \A t \in Tasks :
             /\ (tasks[t].state = "idle" /\ tasks'[t].state # "idle") =>
                  /\ tasks'[t].state = "running"
                  /\ TASK_COUNT' =
                       [TASK_COUNT EXCEPT ![tasks'[t].token[1].cat] =
                                              AddOneFrom(@, 1)]
             /\ (tasks[t].state = "running" /\ tasks'[t].state # "running") =>
                  /\ tasks'[t].state \in ExitPaths
                  /\ tasks'[t].drops = tasks[t].drops + 1
                  /\ TASK_COUNT' =
                       [TASK_COUNT EXCEPT ![tasks[t].token[1].cat] =
                                              SubOneFrom(@, 1)]
             /\ tasks[t].state \in ExitPaths => tasks'[t] = tasks[t]
         ]_vars

\* All tasks have exited, by every one of the exit paths, and every counter
\* reads 0.
C15_Witness ==
    /\ AllReleased
    /\ {tasks[t].state : t \in Tasks} = ExitPaths
    /\ \A t \in Tasks : tasks[t].drops = 1
    /\ \A cat \in Categories : load(cat) = U64Zero
====
